---------------------------- MODULE Spec2Model ----------------------------
(***************************************************************************)
(* A model of examples/hello-world: hello.c (print_hello, add) and test.c  *)
(* (test_add, main).                                                       *)
(*                                                                         *)
(* One behaviour of the model is one process.  The variable prog says      *)
(* which program the process runs:                                         *)
(*   "test"   test.c's main, which calls test_add;                         *)
(*   "hello"  a caller of print_hello;                                     *)
(*   "call"   a caller of add: it calls add on the operands (a, b), may    *)
(*            print or call add on other operands, and then calls add      *)
(*            again, on (a, b) or on (b, a).                               *)
(* The console is the sequence of lines written so far.  Every format      *)
(* string of the source ends in "\n", so each printf adds whole lines.     *)
(***************************************************************************)
EXTENDS Integers, Sequences, FiniteSets, TLC

VARIABLES
    prog,       \* the program this process runs
    linked,     \* the definition of add the program is linked with
    lib,        \* what the math library returns to print_hello's three calls
    a, b,       \* the operands of the caller of add
    second,     \* the caller's second call: "same" (a, b) or "swapped" (b, a)
    pc,         \* the statement to execute next
    out,        \* the console: the lines written so far
    err,        \* the diagnostics written to stderr so far
    checked,    \* the assertions evaluated so far, in order
    r1, r2,     \* what the caller's two calls of add returned (<<>>: nothing yet)
    between,    \* what the caller did between its two calls of add:
                \* "nothing", "printed", "called", or "trapped" in that call
    status,     \* "running", "returned", "exited" or "aborted"
    exit_code   \* <<>> while the process runs, <<n>> once it has ended

vars == <<prog, linked, lib, a, b, second, pc, out, err, checked, r1, r2,
          between, status, exit_code>>

---------------------------------------------------------------------------
(* The C type int, scaled down to IntBits bits, two's complement.          *)

IntBits == 4

INT_MAX == 2 ^ (IntBits - 1) - 1

INT_MIN == -INT_MAX - 1

Int_t == INT_MIN .. INT_MAX

---------------------------------------------------------------------------
(* hello.c: int add(int a, int b) { return a + b; }                        *)
(*                                                                         *)
(* The outcomes of one call.  The body is the single expression a + b on   *)
(* ints: there is no branch, no error return and no printf.  When the sum  *)
(* is representable the call returns it.  When it is not, the signed       *)
(* addition overflows, which is undefined behaviour: a build may wrap,     *)
(* may trap (-ftrapv, a trapping sanitizer) or, after inlining and range   *)
(* reasoning, may behave as any value; the call then returns any int or    *)
(* the process is killed.                                                  *)

Returns(v) == [kind |-> "return", value |-> v, output |-> <<>>]

Traps == [kind |-> "trap", value |-> 0, output |-> <<>>]

add_minus(x, y) == {Returns(x - y)}

add_wide(x, y) == {Returns(x + y)}

add_logging(x, y) ==
    IF x + y \in Int_t
    THEN {[kind |-> "return", value |-> x + y, output |-> <<"add">>]}
    ELSE {Returns(v) : v \in Int_t} \cup {Traps}

add_off_by_one_at_zero(x, y) ==
    IF x + y \in Int_t
    THEN {Returns(IF x + y = 0 THEN 1 ELSE x + y)}
    ELSE {Returns(v) : v \in Int_t} \cup {Traps}

add(x, y) ==
    IF x + y \in Int_t
    THEN {Returns(x + y)}
    ELSE {Returns(v) : v \in Int_t} \cup {Traps}

(* A definition of add that behaves in any way a function returning int   *)
(* can: the test program linked against something other than hello.c.     *)
any_add(x, y) == {Returns(v) : v \in Int_t}

AddImpl(x, y) == IF linked = "hello.c" THEN add(x, y) ELSE any_add(x, y)

---------------------------------------------------------------------------
(* printf's conversions.                                                   *)

DigitChars == <<"0", "1", "2", "3", "4", "5", "6", "7", "8", "9">>

RECURSIVE NatToStr(_)
NatToStr(n) ==
    IF n < 10 THEN DigitChars[n + 1]
    ELSE NatToStr(n \div 10) \o DigitChars[(n % 10) + 1]

(* %d *)
FormatD(n) == IF n < 0 THEN "-" \o NatToStr(-n) ELSE NatToStr(n)

Abs(n) == IF n < 0 THEN -n ELSE n

(* The nearest integer to n / d (n >= 0, d > 0), ties to even: the default *)
(* rounding of printf on a value that is exact in binary.                  *)
RoundHalfEven(n, d) ==
    LET q == n \div d
        r == n % d
    IN  IF 2 * r < d THEN q
        ELSE IF 2 * r > d THEN q + 1
        ELSE IF q % 2 = 0 THEN q ELSE q + 1

(* %.2f of the double num / den (den a power of two, so the double is      *)
(* exact): sign, integer part, ".", two digits.                            *)
FormatF2(q) ==
    LET neg == (q.num < 0) # (q.den < 0)
        hundredths == RoundHalfEven(Abs(q.num) * 100, Abs(q.den))
        frac == hundredths % 100
    IN  (IF neg THEN "-" ELSE "")
        \o NatToStr(hundredths \div 100) \o "."
        \o DigitChars[(frac \div 10) + 1] \o DigitChars[(frac % 10) + 1]

(* U+2713 CHECK MARK, which the module's character set cannot hold. *)
CHECK_MARK == "(U+2713)"

---------------------------------------------------------------------------
(* math_ops.h: multiply, power and divide, as print_hello calls them.  The *)
(* library's source is not in this directory; print_hello sees only what   *)
(* the three calls return.  A double is held as the fraction num / den.    *)

SpecLib ==
    [multiply |-> 15, power |-> 256, divide |-> [num |-> 10, den |-> 4]]

MathLibs ==
    [multiply : {15, 0, -15, 105},
     power    : {256, 1, 1024},
     divide   : {[num |-> 10, den |-> 4], [num |-> -5, den |-> 2],
                 [num |-> 1, den |-> 8], [num |-> 3, den |-> 8],
                 [num |-> 7, den |-> 1]}]

multiply(x, y) == lib.multiply

power(base, exp) == lib.power

divide(x, y) == lib.divide

---------------------------------------------------------------------------
(* The initial states: a process about to execute its first statement.     *)

Programs == {"test", "hello", "call"}

Entry(p) ==
    CASE p = "test"  -> "main:14"
      [] p = "hello" -> "print_hello:6"
      [] p = "call"  -> "call:first"

InitWith(links) ==
    /\ prog \in Programs
    /\ linked \in links
    /\ lib \in (IF prog = "hello" THEN MathLibs ELSE {SpecLib})
    /\ a \in (IF prog = "call" THEN Int_t ELSE {0})
    /\ b \in (IF prog = "call" THEN Int_t ELSE {0})
    /\ second \in (IF prog = "call" THEN {"same", "swapped"} ELSE {"same"})
    /\ pc = Entry(prog)
    /\ out = <<>>
    /\ err = <<>>
    /\ checked = <<>>
    /\ r1 = <<>>
    /\ r2 = <<>>
    /\ between = "nothing"
    /\ status = "running"
    /\ exit_code = <<>>

Init == InitWith({"hello.c"})

(* The test program may also be linked with another definition of add.    *)
InitAnyAdd ==
    /\ InitWith({"hello.c", "other"})
    /\ linked = "other" => prog = "test"

---------------------------------------------------------------------------
(* Steps shared by the programs.                                           *)

(* printf of whole lines; nothing else changes but the position. *)
Printf(at, lines, next) ==
    /\ status = "running"
    /\ pc = at
    /\ out' = out \o lines
    /\ pc' = next
    /\ UNCHANGED <<prog, linked, lib, a, b, second, err, checked, r1, r2,
                   between, status, exit_code>>

(* abort(): SIGABRT, which a shell reports as 128 + 6. *)
Aborted ==
    /\ status' = "aborted"
    /\ exit_code' = <<134>>

---------------------------------------------------------------------------
(* test.c *)

assert_continues(e) == "continue"

(* <assert.h>, NDEBUG not defined: a false expression aborts the process. *)
assert(e) == IF e THEN "continue" ELSE "abort"

(* What a failed assertion writes to stderr: the place and the expression. *)
Diagnostic(at, x, y, expected) ==
    at \o ": Assertion failed: add(" \o FormatD(x) \o ", " \o FormatD(y)
       \o ") == " \o FormatD(expected)

(* assert(add(x, y) == expected); at statement `at`. *)
AssertAdd(at, x, y, expected, next) ==
    /\ prog = "test"
    /\ status = "running"
    /\ pc = at
    /\ \E o \in AddImpl(x, y) :
          /\ out' = out \o o.output
          /\ IF o.kind = "trap"
             THEN /\ Aborted
                  /\ UNCHANGED <<checked, pc, err>>
             ELSE /\ checked' = Append(checked,
                         [x |-> x, y |-> y, value |-> o.value,
                          ok |-> (o.value = expected)])
                  /\ IF assert(o.value = expected) = "continue"
                     THEN /\ pc' = next
                          /\ UNCHANGED <<status, exit_code, err>>
                     ELSE /\ err' = Append(err, Diagnostic(at, x, y, expected))
                          /\ Aborted
                          /\ UNCHANGED pc
    /\ UNCHANGED <<prog, linked, lib, a, b, second, r1, r2, between>>

main_printf_running ==
    /\ prog = "test"
    /\ Printf("main:14", <<"Running tests...">>, "test_add:6")

test_add_printf_testing ==
    /\ prog = "test"
    /\ Printf("test_add:6", <<"Testing add function...">>, "test_add:7")

test_add_assert_2_3 == AssertAdd("test_add:7", 2, 3, 5, "test_add:8")

test_add_assert_m1_1 == AssertAdd("test_add:8", -1, 1, 0, "test_add:9")

test_add_assert_0_0_again ==
    AssertAdd("test_add:9", 0, 0, 0, "test_add:7")

test_add_assert_0_0 == AssertAdd("test_add:9", 0, 0, 0, "test_add:10")

test_add_printf_passed_twice ==
    /\ prog = "test"
    /\ Printf("test_add:10",
              <<"  " \o CHECK_MARK \o " All add tests passed",
                "  " \o CHECK_MARK \o " All add tests passed">>, "main:16")

test_add_printf_passed ==
    /\ prog = "test"
    /\ Printf("test_add:10",
              <<"  " \o CHECK_MARK \o " All add tests passed">>, "main:16")

(* "\n... All tests passed!\n": an empty line, then the message. *)
main_printf_all_passed ==
    /\ prog = "test"
    /\ Printf("main:16", <<"", CHECK_MARK \o " All tests passed!">>, "main:17")

main_return_1 ==
    /\ prog = "test"
    /\ status = "running"
    /\ pc = "main:17"
    /\ status' = "exited"
    /\ exit_code' = <<1>>
    /\ UNCHANGED <<prog, linked, lib, a, b, second, pc, out, err, checked,
                   r1, r2, between>>

(* return 0; *)
main_return ==
    /\ prog = "test"
    /\ status = "running"
    /\ pc = "main:17"
    /\ status' = "exited"
    /\ exit_code' = <<0>>
    /\ UNCHANGED <<prog, linked, lib, a, b, second, pc, out, err, checked,
                   r1, r2, between>>

---------------------------------------------------------------------------
(* hello.c: print_hello, and the return to its caller. *)

print_hello_greeting ==
    /\ prog = "hello"
    /\ Printf("print_hello:6", <<"Hello, World from nx-make!">>,
              "print_hello:7")

print_hello_power_first ==
    /\ prog = "hello"
    /\ Printf("print_hello:7",
              <<"Math demo: 2^8 = " \o FormatD(power(2, 8))>>,
              "print_hello:8")

print_hello_multiply ==
    /\ prog = "hello"
    /\ Printf("print_hello:7",
              <<"Math demo: 5 * 3 = " \o FormatD(multiply(5, 3))>>,
              "print_hello:8")

print_hello_power ==
    /\ prog = "hello"
    /\ Printf("print_hello:8",
              <<"Math demo: 2^8 = " \o FormatD(power(2, 8))>>,
              "print_hello:9")

print_hello_divide ==
    /\ prog = "hello"
    /\ Printf("print_hello:9",
              <<"Math demo: 10 / 4 = "
                \o FormatF2(divide([num |-> 10, den |-> 1],
                                   [num |-> 4, den |-> 1]))>>,
              "print_hello:10")

print_hello_return ==
    /\ prog = "hello"
    /\ status = "running"
    /\ pc = "print_hello:10"
    /\ status' = "returned"
    /\ UNCHANGED <<prog, linked, lib, a, b, second, pc, out, err, checked,
                   r1, r2, between, exit_code>>

---------------------------------------------------------------------------
(* A caller of add. *)

(* Each call of add takes one of add's outcomes: a trap kills the process, *)
(* a return hands the value to the caller.                                 *)

caller_first_call ==
    /\ prog = "call"
    /\ status = "running"
    /\ pc = "call:first"
    /\ \E o \in AddImpl(a, b) :
          /\ out' = out \o o.output
          /\ IF o.kind = "trap"
             THEN /\ Aborted
                  /\ UNCHANGED <<pc, r1>>
             ELSE /\ r1' = <<o.value>>
                  /\ pc' = "call:second"
                  /\ UNCHANGED <<status, exit_code>>
    /\ UNCHANGED <<prog, linked, lib, a, b, second, err, checked, r2, between>>

(* Between its two calls the caller may print a line ... *)
caller_prints ==
    /\ prog = "call"
    /\ status = "running"
    /\ pc = "call:second"
    /\ between = "nothing"
    /\ out' = Append(out, "caller")
    /\ between' = "printed"
    /\ UNCHANGED <<prog, linked, lib, a, b, second, pc, err, checked, r1, r2,
                   status, exit_code>>

(* ... or call add on other operands and drop the result. *)
caller_calls_other ==
    /\ prog = "call"
    /\ status = "running"
    /\ pc = "call:second"
    /\ between = "nothing"
    /\ \E x \in {INT_MIN, 0, INT_MAX}, y \in {INT_MIN, 0, INT_MAX} :
          \E o \in AddImpl(x, y) :
             /\ out' = out \o o.output
             /\ IF o.kind = "trap"
                THEN /\ Aborted
                     /\ between' = "trapped"
                ELSE /\ between' = "called"
                     /\ UNCHANGED <<status, exit_code>>
    /\ UNCHANGED <<prog, linked, lib, a, b, second, pc, err, checked, r1, r2>>

(* The second call, on the same operands or on the operands swapped; the   *)
(* caller then returns.                                                    *)
caller_second_call ==
    /\ prog = "call"
    /\ status = "running"
    /\ pc = "call:second"
    /\ \E o \in (IF second = "same" THEN AddImpl(a, b) ELSE AddImpl(b, a)) :
          /\ out' = out \o o.output
          /\ IF o.kind = "trap"
             THEN /\ Aborted
                  /\ UNCHANGED r2
             ELSE /\ r2' = <<o.value>>
                  /\ status' = "returned"
                  /\ UNCHANGED exit_code
    /\ UNCHANGED <<prog, linked, lib, a, b, second, pc, err, checked, r1,
                   between>>

---------------------------------------------------------------------------

Next ==
    \/ main_printf_running
    \/ test_add_printf_testing
    \/ test_add_assert_2_3
    \/ test_add_assert_m1_1
    \/ test_add_assert_0_0
    \/ test_add_printf_passed
    \/ main_printf_all_passed
    \/ main_return
    \/ print_hello_greeting
    \/ print_hello_multiply
    \/ print_hello_power
    \/ print_hello_divide
    \/ print_hello_return
    \/ caller_first_call
    \/ caller_prints
    \/ caller_calls_other
    \/ caller_second_call

(* The programs as built from hello.c and test.c. *)
Spec == Init /\ [][Next]_vars

(* The same, the test program linked with any definition of add. *)
SpecAnyAdd == InitAnyAdd /\ [][Next]_vars

(* A process that can take a step takes one: the statements run in        *)
(* sequence on one thread and nothing suspends them.                       *)
FairSpecAnyAdd == SpecAnyAdd /\ WF_vars(Next)

---------------------------------------------------------------------------
(* What the claims speak of. *)

(* The two's-complement wrap of n into the IntBits-bit range. *)
Wrap(n) == ((n - INT_MIN) % (2 ^ IntBits)) + INT_MIN

FirstCallTrapped ==
    prog = "call" /\ status = "aborted" /\ pc = "call:first"

SecondCallTrapped ==
    prog = "call" /\ status = "aborted" /\ pc = "call:second"
    /\ between # "trapped"

AllPassed == Len(checked) = 3 /\ \A i \in DOMAIN checked : checked[i].ok

SomeFailed == \E i \in DOMAIN checked : ~checked[i].ok

PassedMessage == "  " \o CHECK_MARK \o " All add tests passed"

AllPassedMessage == CHECK_MARK \o " All tests passed!"

IsPrefix(s, t) == Len(s) <= Len(t) /\ \A i \in DOMAIN s : s[i] = t[i]

Operands(i) == <<checked[i].x, checked[i].y>>

TestPcs ==
    <<"main:14", "test_add:6", "test_add:7", "test_add:8", "test_add:9",
      "test_add:10", "main:16", "main:17">>

Rank(p) == CHOOSE i \in DOMAIN TestPcs : TestPcs[i] = p

---------------------------------------------------------------------------
(* C1, as amended: for all ints a and b whose sum a + b is representable   *)
(* as an int, the call add(a, b) returns, and returns a + b.               *)
C1_AddReturnsSumInRange ==
    (prog = "call" /\ a + b \in Int_t) =>
        /\ ~FirstCallTrapped
        /\ r1 # <<>> => r1 = <<a + b>>

C1_Witness ==
    prog = "call" /\ a = INT_MAX /\ b = INT_MIN /\ r1 = <<-1>>

(* C1 as stated: for all integers a and b, add(a, b) returns a + b.        *)
C1_AsStated ==
    prog = "call" =>
        /\ ~FirstCallTrapped
        /\ r1 # <<>> => r1 = <<a + b>>

C3_AssertionsHold ==
    prog = "test" =>
        /\ status # "aborted"
        /\ err = <<>>
        /\ \A i \in DOMAIN checked : checked[i].ok
        /\ Len(checked) >= 1 => (Operands(1) = <<2, 3>> /\ checked[1].value = 5)
        /\ Len(checked) >= 2 => (Operands(2) = <<-1, 1>> /\ checked[2].value = 0)
        /\ Len(checked) >= 3 => (Operands(3) = <<0, 0>> /\ checked[3].value = 0)

C3_Witness ==
    prog = "test" /\ linked = "hello.c" /\ Len(checked) = 3 /\ pc = "test_add:10"

(* C4: the test program's exit code is 0 exactly when no assertion aborts  *)
(* the process: main returns 0 only after all three assertions passed, a   *)
(* run in which all three passed ends by returning 0, and a run in which   *)
(* an assertion fails is aborted with a nonzero exit code.                 *)
C4_ExitCode ==
    prog = "test" =>
        /\ exit_code = <<0>> => (AllPassed /\ status = "exited")
        /\ (status # "running" /\ AllPassed) => exit_code = <<0>>
        /\ SomeFailed => (status = "aborted" /\ exit_code # <<>>
                          /\ exit_code[1] # 0)
        /\ status = "aborted" => SomeFailed

C4_Witness ==
    /\ prog = "test" /\ status = "aborted" /\ Len(checked) = 3
    /\ exit_code = <<134>>

(* C5: whatever add returns, a failed assertion aborts the process at that *)
(* assertion: it is the last one evaluated and neither success message is  *)
(* ever printed; a success message is printed only after all three         *)
(* assertions have passed.                                                 *)
C5_AbortAtFailedAssertion ==
    prog = "test" =>
        /\ \A i \in DOMAIN checked :
              ~checked[i].ok =>
                  /\ i = Len(checked)
                  /\ status = "aborted"
                  /\ pc = TestPcs[i + 2]
                  /\ Len(err) = 1
                  /\ \A k \in DOMAIN out :
                        out[k] \notin {PassedMessage, AllPassedMessage}
        /\ (\E k \in DOMAIN out : out[k] \in {PassedMessage, AllPassedMessage})
              => AllPassed

C5_Witness ==
    /\ prog = "test" /\ status = "aborted" /\ Len(checked) = 2
    /\ checked[1].ok /\ ~checked[2].ok

(* C6: every run of the test program terminates: each step moves to a      *)
(* later statement or ends the process, and the process eventually ends,   *)
(* by the return from main or by an abort at an assertion.                 *)
C6_Terminates ==
    /\ [][prog = "test" =>
             (status' # "running" \/ Rank(pc') > Rank(pc))]_vars
    /\ [](prog = "test" /\ status = "aborted" =>
             pc \in {"test_add:7", "test_add:8", "test_add:9"})
    /\ [](prog = "test" => <>(status \in {"exited", "aborted"}))

C6_Witness ==
    prog = "test" /\ linked = "other" /\ status = "exited" /\ pc = "main:17"

(* C7: print_hello writes exactly four lines in a fixed order: the         *)
(* greeting, the multiply line, the power line, the divide line; with a    *)
(* math library where multiply(5, 3) = 15, power(2, 8) = 256 and           *)
(* divide(10.0, 4.0) = 2.5, the lines report 15, 256 and 2.50.             *)
C7_PrintHello ==
    prog = "hello" =>
        /\ Len(out) <= 4
        /\ status = "returned" => Len(out) = 4
        /\ Len(out) >= 1 => out[1] = "Hello, World from nx-make!"
        /\ Len(out) >= 2 =>
              out[2] = "Math demo: 5 * 3 = " \o FormatD(lib.multiply)
        /\ Len(out) >= 3 =>
              out[3] = "Math demo: 2^8 = " \o FormatD(lib.power)
        /\ Len(out) >= 4 =>
              out[4] = "Math demo: 10 / 4 = " \o FormatF2(lib.divide)
        /\ lib = SpecLib =>
              IsPrefix(out, <<"Hello, World from nx-make!",
                              "Math demo: 5 * 3 = 15",
                              "Math demo: 2^8 = 256",
                              "Math demo: 10 / 4 = 2.50">>)

C7_Witness ==
    /\ prog = "hello" /\ lib = SpecLib /\ status = "returned"
    /\ out[4] = "Math demo: 10 / 4 = 2.50"

(* C8: in a successful run of the test program the console holds, in this  *)
(* order and once each, "Running tests...", "Testing add function...",     *)
(* "All add tests passed", "All tests passed!"; the three assertions are   *)
(* evaluated in source order, after the second message and before the      *)
(* third.                                                                  *)
C8_OutputOrder ==
    prog = "test" =>
        /\ IsPrefix(out, <<"Running tests...", "Testing add function...",
                           PassedMessage, "", AllPassedMessage>>)
        /\ status = "exited" => Len(out) = 5
        /\ Len(checked) <= 3
        /\ \A i \in DOMAIN checked :
              Operands(i) = <<<<2, 3>>, <<-1, 1>>, <<0, 0>>>>[i]
        /\ Len(checked) >= 1 => Len(out) >= 2
        /\ Len(out) >= 3 => Len(checked) = 3

C8_Witness ==
    /\ prog = "test" /\ linked = "hello.c" /\ status = "exited"
    /\ Len(out) = 5 /\ Len(checked) = 3

=============================================================================
